---- MODULE Spec2Model ----
(***************************************************************************)
(* Model of the SAMv3 bridge client (package sam3, sam3.go).               *)
(*                                                                         *)
(* Strings are strings of bytes; a Go slice expression s[a:b] is          *)
(* SubSeq(s, a+1, b).  One action is one blocking I/O call of the program  *)
(* (dial, write, read, close) together with the pure code that follows it  *)
(* up to the next I/O call or the return.  The bridge and the transport    *)
(* are the environment: the result of every write and read is chosen       *)
(* nondeterministically from bounded sets.                                 *)
(***************************************************************************)
EXTENDS Integers, Sequences, FiniteSets, TLC

VARIABLES conns, sam, pc, call, ret

vars == <<conns, sam, pc, call, ret>>

(***************************************************************************)
(* Bounds of the model.                                                    *)
(***************************************************************************)
MaxConns == 3
MaxKeyTokens == 4
MaxLookupTokens == 3
MaxTail == 2
MaxOpts == 2
MaxExtras == 2

(***************************************************************************)
(* Program constants.                                                      *)
(***************************************************************************)
session_OK == "SESSION STATUS RESULT=OK DESTINATION="
session_DUPLICATE_ID == "SESSION STATUS RESULT=DUPLICATED_ID\n"
session_DUPLICATE_DEST == "SESSION STATUS RESULT=DUPLICATED_DEST\n"
session_INVALID_KEY == "SESSION STATUS RESULT=INVALID_KEY\n"
session_I2P_ERROR == "SESSION STATUS RESULT=I2P_ERROR MESSAGE="

HelloCmd == "HELLO VERSION MIN=3.0 MAX=3.0\n"
HelloOK == "HELLO REPLY RESULT=OK VERSION=3.0\n"
HelloNoVersion == "HELLO REPLY RESULT=NOVERSION\n"
DestGenerateCmd == "DEST GENERATE\n"
NamingHeader == "NAMING REPLY "
NamingHeaderLen == 13
MaxWriteAttempts == 15

ErrNoSAMv3 == "That SAM bridge does not support SAMv3."
ErrParseKeys == "Failed to parse keys."
ErrParse == "Failed to parse."
ErrParseLookup == "Failed to parse lookup reply."
ErrNewTunnel == "Unable to create new streaming tunnel."
ErrWriting == "writing to SAM failed"
ErrKeyMismatch == "SAMv3 created a tunnel with keys other than the ones we asked it for"
ErrDupId == "Duplicate tunnel name"
ErrDupDest == "Duplicate destination"
ErrInvalidKey == "Invalid key"

(* Errors of the transport (package net); their text is the runtime's.     *)
ErrDial == "dial tcp4: connection refused"
ErrWrite == "write tcp4: broken pipe"
ErrRead == "read tcp4: connection reset by peer"
ErrClosed == "use of closed network connection"

(***************************************************************************)
(* String helpers (package strings, bufio.ScanWords).                      *)
(***************************************************************************)
HasPrefix(s, p) == Len(s) >= Len(p) /\ SubSeq(s, 1, Len(p)) = p

(* A string is a string of bytes, as in Go: its k-th character stands for  *)
(* the k-th byte and has that byte's value (0..255) as code point, so Len  *)
(* and SubSeq count and cut bytes.  A character outside ASCII is therefore *)
(* written as the characters of its UTF-8 bytes: U+00A0 is the two bytes   *)
(* C2 A0.                                                                  *)
(*                                                                         *)
(* bufio.isSpace on a rune given by its UTF-8 encoding.  The blanks are the*)
(* ASCII ones (space, \t, \n, vertical tab, \f, \r; vertical tab has no    *)
(* escape and is written as the byte itself), U+0085 and U+00A0 (two       *)
(* bytes), and U+1680, U+2000..U+200A, U+2028, U+2029, U+202F, U+205F and  *)
(* U+3000 (three bytes).                                                   *)
SpaceRunes ==
    {" ", "\t", "\n", "", "\f", "\r",
     "Â", "Â ",
     "á", "â", "â", "â", "â", "â",
     "â", "â", "â", "â", "â", "â",
     "â¨", "â©", "â¯", "â", "ã"}
IsSpace(r) == r \in SpaceRunes

(* The first bytes of the blanks of more than one byte: C2, E1, E2, E3.     *)
LeadBytes == {"Â", "á", "â", "ã"}

(* utf8.DecodeRune at the head of s, as bufio.ScanWords uses it: the width *)
(* of the blank that starts s, 0 when s starts with no blank.  A byte that *)
(* starts no blank is passed over alone: the bytes that follow the first   *)
(* byte of a rune are in 80..BF and start no blank, and an invalid         *)
(* sequence is decoded with width 1.                                       *)
SpaceWidth(s) ==
    IF s = "" THEN 0
    ELSE IF SubSeq(s, 1, 1) \in LeadBytes
    THEN IF Len(s) >= 2 /\ IsSpace(SubSeq(s, 1, 2)) THEN 2
         ELSE IF Len(s) >= 3 /\ IsSpace(SubSeq(s, 1, 3)) THEN 3
         ELSE 0
    ELSE IF IsSpace(SubSeq(s, 1, 1)) THEN 1 ELSE 0

RECURSIVE WordLen(_)
WordLen(s) ==
    IF s = "" \/ SpaceWidth(s) > 0 THEN 0 ELSE 1 + WordLen(Tail(s))

RECURSIVE ScanWords(_)
ScanWords(s) ==
    IF s = "" THEN <<>>
    ELSE LET w == SpaceWidth(s)
             n == WordLen(s)
         IN  IF w > 0 THEN ScanWords(SubSeq(s, w + 1, Len(s)))
             ELSE <<SubSeq(s, 1, n)>> \o ScanWords(SubSeq(s, n + 1, Len(s)))

RECURSIVE Join(_, _)
Join(ts, sep) ==
    IF ts = <<>> THEN ""
    ELSE IF Len(ts) = 1 THEN ts[1]
    ELSE ts[1] \o sep \o Join(Tail(ts), sep)

(***************************************************************************)
(* Records of the model.                                                   *)
(***************************************************************************)
NoKeys == [pub |-> "", priv |-> ""]

(* st: not dialed, open, closed.  hello: the exact handshake success reply *)
(* has been read on the connection.  first: the bytes of the first Write.  *)
(* handed: newGenericSession returned the connection to its caller.        *)
NoConn == [st |-> "none", hello |-> FALSE, first |-> "", handed |-> FALSE]

NoSAM == [address |-> "", conn |-> 0]

NoCall ==
    [op |-> "none", name |-> "", style |-> "", id |-> "", keys |-> NoKeys,
     options |-> <<>>, extras |-> <<>>, conn |-> 0, scmsg |-> "",
     m |-> 0, i |-> 0, hs |-> FALSE, sent |-> "",
     nw |-> 0, nr |-> 0, touched |-> {}, closed |-> {}]

NoRet ==
    [op |-> "none", ok |-> FALSE, panic |-> FALSE, msg |-> "",
     keys |-> NoKeys, addr |-> "", rconn |-> 0, conn |-> 0,
     reply |-> "", gotReply |-> FALSE, hs |-> FALSE, name |-> "",
     reqkeys |-> NoKeys,
     nw |-> 0, nr |-> 0, touched |-> {}, closed |-> {}]

Address == "127.0.0.1:7656"

(***************************************************************************)
(* I2PKeys.String(): the serialization used as the DESTINATION= argument.  *)
(***************************************************************************)
KeysString(k) == k.pub \o k.priv

(***************************************************************************)
(* NewSAM: classification of the handshake reply (sam3.go:40-46).          *)
(***************************************************************************)
HelloClassifyByPrefix(text) ==
    IF HasPrefix(text, HelloOK) THEN [ok |-> TRUE, msg |-> ""]
    ELSE IF text = HelloNoVersion THEN [ok |-> FALSE, msg |-> ErrNoSAMv3]
    ELSE [ok |-> FALSE, msg |-> text]

(* HelloClassify that fails on the no-version reply only. *)
HelloClassifyLenient(text) ==
    IF text = HelloNoVersion THEN [ok |-> FALSE, msg |-> ErrNoSAMv3]
    ELSE [ok |-> TRUE, msg |-> ""]

HelloClassify(text) ==
    IF text = HelloOK THEN [ok |-> TRUE, msg |-> ""]
    ELSE IF text = HelloNoVersion THEN [ok |-> FALSE, msg |-> ErrNoSAMv3]
    ELSE [ok |-> FALSE, msg |-> text]

(***************************************************************************)
(* NewKeys: the token loop (sam3.go:64-79).                                *)
(***************************************************************************)
(* KeysScan with the PRIV= prefix cut one byte short. *)
RECURSIVE KeysScanShortCut(_, _, _)
KeysScanShortCut(toks, pub, priv) ==
    IF toks = <<>> THEN
        [ok |-> TRUE, msg |-> "", keys |-> [pub |-> pub, priv |-> priv]]
    ELSE LET text == Head(toks) IN
        IF text = "DEST" THEN KeysScanShortCut(Tail(toks), pub, priv)
        ELSE IF text = "REPLY" THEN KeysScanShortCut(Tail(toks), pub, priv)
        ELSE IF HasPrefix(text, "PUB=") THEN
            KeysScanShortCut(Tail(toks), SubSeq(text, 5, Len(text)), priv)
        ELSE IF HasPrefix(text, "PRIV=") THEN
            KeysScanShortCut(Tail(toks), pub, SubSeq(text, 5, Len(text)))
        ELSE [ok |-> FALSE, msg |-> ErrParseKeys, keys |-> NoKeys]

RECURSIVE KeysScan(_, _, _)
KeysScan(toks, pub, priv) ==
    IF toks = <<>> THEN
        [ok |-> TRUE, msg |-> "", keys |-> [pub |-> pub, priv |-> priv]]
    ELSE LET text == Head(toks) IN
        IF text = "DEST" THEN KeysScan(Tail(toks), pub, priv)
        ELSE IF text = "REPLY" THEN KeysScan(Tail(toks), pub, priv)
        ELSE IF HasPrefix(text, "PUB=") THEN
            KeysScan(Tail(toks), SubSeq(text, 5, Len(text)), priv)
        ELSE IF HasPrefix(text, "PRIV=") THEN
            KeysScan(Tail(toks), pub, SubSeq(text, 6, Len(text)))
        ELSE [ok |-> FALSE, msg |-> ErrParseKeys, keys |-> NoKeys]

ParseKeys(reply) == KeysScan(ScanWords(reply), "", "")

(***************************************************************************)
(* Lookup: header check and token loop (sam3.go:93-118).                   *)
(***************************************************************************)
(* LookupScan that lets accumulated error text defeat a VALUE= token. *)
RECURSIVE LookupScanErrFirst(_, _, _)
LookupScanErrFirst(toks, name, errStr) ==
    IF toks = <<>> THEN [ok |-> FALSE, msg |-> errStr, addr |-> ""]
    ELSE LET text == Head(toks) IN
        IF text = "RESULT=OK" THEN
            LookupScanErrFirst(Tail(toks), name, errStr)
        ELSE IF text = "RESULT=INVALID_KEY" THEN
            LookupScanErrFirst(Tail(toks), name, errStr \o "Invalid key.")
        ELSE IF text = "RESULT=KEY_NOT_FOUND" THEN
            LookupScanErrFirst(Tail(toks), name,
                               errStr \o "Unable to resolve " \o name)
        ELSE IF text = "NAME=" \o name THEN
            LookupScanErrFirst(Tail(toks), name, errStr)
        ELSE IF HasPrefix(text, "VALUE=") THEN
            IF errStr = "" THEN
                [ok |-> TRUE, msg |-> "", addr |-> SubSeq(text, 7, Len(text))]
            ELSE LookupScanErrFirst(Tail(toks), name, errStr)
        ELSE IF HasPrefix(text, "MESSAGE=") THEN
            LookupScanErrFirst(Tail(toks), name,
                               errStr \o " " \o SubSeq(text, 9, Len(text)))
        ELSE [ok |-> FALSE, msg |-> ErrParseLookup, addr |-> ""]

RECURSIVE LookupScan(_, _, _)
LookupScan(toks, name, errStr) ==
    IF toks = <<>> THEN [ok |-> FALSE, msg |-> errStr, addr |-> ""]
    ELSE LET text == Head(toks) IN
        IF text = "RESULT=OK" THEN LookupScan(Tail(toks), name, errStr)
        ELSE IF text = "RESULT=INVALID_KEY" THEN
            LookupScan(Tail(toks), name, errStr \o "Invalid key.")
        ELSE IF text = "RESULT=KEY_NOT_FOUND" THEN
            LookupScan(Tail(toks), name, errStr \o "Unable to resolve " \o name)
        ELSE IF text = "NAME=" \o name THEN LookupScan(Tail(toks), name, errStr)
        ELSE IF HasPrefix(text, "VALUE=") THEN
            [ok |-> TRUE, msg |-> "", addr |-> SubSeq(text, 7, Len(text))]
        ELSE IF HasPrefix(text, "MESSAGE=") THEN
            LookupScan(Tail(toks), name,
                       errStr \o " " \o SubSeq(text, 9, Len(text)))
        ELSE [ok |-> FALSE, msg |-> ErrParseLookup, addr |-> ""]

HeaderRejected(reply) ==
    Len(reply) <= NamingHeaderLen \/ ~HasPrefix(reply, NamingHeader)

ParseLookup(reply, name) ==
    IF HeaderRejected(reply) THEN [ok |-> FALSE, msg |-> ErrParse, addr |-> ""]
    ELSE LookupScan(ScanWords(SubSeq(reply, NamingHeaderLen + 1, Len(reply))),
                    name, "")

(***************************************************************************)
(* newGenericSession: the command (sam3.go:132-138).                       *)
(***************************************************************************)
RECURSIVE OptStr(_)
OptStr(options) ==
    IF options = <<>> THEN ""
    ELSE "OPTION=" \o Head(options) \o " " \o OptStr(Tail(options))

(* SessionCreateMsg with the extras written before the options. *)
SessionCreateMsgExtrasFirst(style, id, keys, options, extras) ==
    "SESSION CREATE STYLE=" \o style \o " ID=" \o id \o " DESTINATION="
        \o KeysString(keys) \o " " \o Join(extras, " ") \o " "
        \o OptStr(options) \o "\n"

SessionCreateMsg(style, id, keys, options, extras) ==
    "SESSION CREATE STYLE=" \o style \o " ID=" \o id \o " DESTINATION="
        \o KeysString(keys) \o " " \o OptStr(options) \o Join(extras, " ")
        \o "\n"

(***************************************************************************)
(* newGenericSession: classification of the reply (sam3.go:157-178).       *)
(* outcome "panic" is the run-time panic of the slice expression           *)
(* text[len(session_OK):len(text)-1] when len(text)-1 < len(session_OK).   *)
(* close tells whether conn.Close() is called on the branch.               *)
(***************************************************************************)
(* SessionClassify that closes the connection on the success branch too. *)
SessionClassifyClosing(text, keys) ==
    IF HasPrefix(text, session_OK) THEN
        IF Len(text) - 1 < Len(session_OK) THEN
            [outcome |-> "panic", msg |-> "", close |-> FALSE]
        ELSE IF KeysString(keys)
                  # SubSeq(text, Len(session_OK) + 1, Len(text) - 1) THEN
            [outcome |-> "error", msg |-> ErrKeyMismatch, close |-> FALSE]
        ELSE [outcome |-> "ok", msg |-> "", close |-> TRUE]
    ELSE IF text = session_DUPLICATE_ID THEN
        [outcome |-> "error", msg |-> ErrDupId, close |-> TRUE]
    ELSE IF text = session_DUPLICATE_DEST THEN
        [outcome |-> "error", msg |-> ErrDupDest, close |-> TRUE]
    ELSE IF text = session_INVALID_KEY THEN
        [outcome |-> "error", msg |-> ErrInvalidKey, close |-> TRUE]
    ELSE IF HasPrefix(text, session_I2P_ERROR) THEN
        [outcome |-> "error", close |-> TRUE,
         msg |-> "I2P error "
                 \o SubSeq(text, Len(session_I2P_ERROR) + 1, Len(text))]
    ELSE [outcome |-> "error", close |-> TRUE,
          msg |-> "Unable to parse SAMv3 reply: " \o text]

SessionClassify(text, keys) ==
    IF HasPrefix(text, session_OK) THEN
        IF Len(text) - 1 < Len(session_OK) THEN
            [outcome |-> "panic", msg |-> "", close |-> FALSE]
        ELSE IF KeysString(keys)
                  # SubSeq(text, Len(session_OK) + 1, Len(text) - 1) THEN
            [outcome |-> "error", msg |-> ErrKeyMismatch, close |-> FALSE]
        ELSE [outcome |-> "ok", msg |-> "", close |-> FALSE]
    ELSE IF text = session_DUPLICATE_ID THEN
        [outcome |-> "error", msg |-> ErrDupId, close |-> TRUE]
    ELSE IF text = session_DUPLICATE_DEST THEN
        [outcome |-> "error", msg |-> ErrDupDest, close |-> TRUE]
    ELSE IF text = session_INVALID_KEY THEN
        [outcome |-> "error", msg |-> ErrInvalidKey, close |-> TRUE]
    ELSE IF HasPrefix(text, session_I2P_ERROR) THEN
        [outcome |-> "error", close |-> TRUE,
         msg |-> "I2P error "
                 \o SubSeq(text, Len(session_I2P_ERROR) + 1, Len(text))]
    ELSE [outcome |-> "error", close |-> TRUE,
          msg |-> "Unable to parse SAMv3 reply: " \o text]


(***************************************************************************)
(* Inputs: what the callers pass and what the bridge may answer.           *)
(***************************************************************************)
RECURSIVE StrUpTo(_, _)
StrUpTo(A, n) ==
    IF n = 0 THEN {""}
    ELSE LET S == StrUpTo(A, n - 1) IN S \cup {s \o a : s \in S, a \in A}

RECURSIVE SeqUpTo(_, _)
SeqUpTo(A, n) ==
    IF n = 0 THEN {<<>>}
    ELSE LET S == SeqUpTo(A, n - 1)
         IN  S \cup {Append(s, a) : s \in S, a \in A}

TailChars == {"\n", "x"}
Tails == StrUpTo(TailChars, MaxTail)

HelloReplies ==
    {p \o t : p \in {"", "HELLO REPLY RESULT=OK VERSION=3.0",
                     "HELLO REPLY RESULT=NOVERSION"},
              t \in Tails}

(* What the bridge puts between two tokens of a reply: a space, or another *)
(* blank of bufio.isSpace (form feed, U+00A0).                             *)
Separators == {" ", "\f", "Â "}

KeyTokens == {"DEST", "REPLY", "PUB=abc", "PRIV=xyz", "FOO=bar", "PUBLIC"}
KeysReplies ==
    {Join(ts, sep) \o e : ts \in SeqUpTo(KeyTokens, MaxKeyTokens),
                          sep \in Separators, e \in {"", "\n"}}

Names == {"nonexistent.i2p", "idk.i2p"}
LookupTokens ==
    {"RESULT=OK", "RESULT=INVALID_KEY", "RESULT=KEY_NOT_FOUND",
     "NAME=nonexistent.i2p", "NAME=idk.i2p", "VALUE=addr1", "VALUE=addr2",
     "MESSAGE=boom", "BOGUS"}
LookupReplies ==
    {NamingHeader \o Join(ts, sep) \o e :
        ts \in SeqUpTo(LookupTokens, MaxLookupTokens),
        sep \in Separators, e \in {"", "\n"}}
    \cup {h \o t \o e : h \in {"", "NAMING REPLY", "NAMING REPLX "},
                        t \in {"", "VALUE=addr1"}, e \in {"", "\n"}}

(* The replies the engine-wide specification lets the bridge give to       *)
(* DEST GENERATE and NAMING LOOKUP; KeysReplies and LookupReplies are the  *)
(* sets of the specifications of the two parsers.                          *)
KeysRepliesCore ==
    {"DEST REPLY PUB=abc PRIV=xyz\n", "DEST REPLY PRIV=xyz PUB=abc\n",
     "DEST REPLY PUB=abc\n", "DEST REPLY PUB=abc FOO=bar\n", ""}
LookupRepliesCore ==
    {"NAMING REPLY RESULT=OK NAME=idk.i2p VALUE=addr1\n",
     "NAMING REPLY RESULT=KEY_NOT_FOUND NAME=nonexistent.i2p\n",
     "NAMING REPLY RESULT=INVALID_KEY MESSAGE=boom\n",
     "NAMING REPLY ", "HELLO REPLY RESULT=OK VERSION=3.0\n"}

Styles == {"STREAM", "DATAGRAM", "RAW"}
(* The styles of the engine-wide specification. *)
StylesCore == {"STREAM", "RAW"}
Ids == {"tun1"}
KeySet == {[pub |-> "abc", priv |-> "xyz"], [pub |-> "abc", priv |-> "xy"]}
OptSet == {"a=1", "b=2"}
ExtraSet == {"PORT=1", "HOST=h"}
OptionLists == SeqUpTo(OptSet, MaxOpts)
ExtraLists == SeqUpTo(ExtraSet, MaxExtras)
(* The option and extras lists of the engine-wide specification. *)
OptionListsCore == {<<>>, <<"a=1", "b=2">>}
ExtraListsCore == {<<"PORT=1">>}

SessionReplies ==
    {p \o t :
        p \in {"", session_OK, "SESSION STATUS RESULT=OK",
               "SESSION STATUS RESULT=DUPLICATED_ID",
               "SESSION STATUS RESULT=DUPLICATED_DEST",
               "SESSION STATUS RESULT=INVALID_KEY",
               session_I2P_ERROR, session_I2P_ERROR \o "boom"}
              \cup {session_OK \o KeysString(k) : k \in KeySet},
        t \in Tails}

(* Byte counts a partial write may report besides the whole rest.          *)
PartialSizes == {0, 1}
WriteSizes(rest) == {n \in 0..Len(rest) : n \in PartialSizes \/ n = Len(rest)}

(***************************************************************************)
(* Connections.                                                            *)
(***************************************************************************)
ConnIds == 1..MaxConns
FreeIds == {c \in ConnIds : conns[c].st = "none"}
FreeConn == CHOOSE c \in FreeIds : \A d \in FreeIds : c <= d

(* net.Dial succeeded: a fresh connection c is open. *)
Dialed(c) == [conns EXCEPT ![c].st = "open"]

(* conn.Write(b) was called on c. *)
Written(cs, c, b) ==
    [cs EXCEPT ![c].first = IF cs[c].first = "" THEN b ELSE @]

(* conn.Read on c returned text. *)
ReadOn(cs, c, text) == [cs EXCEPT ![c].hello = @ \/ text = HelloOK]

(* c is returned to the caller of newGenericSession. *)
HandedOver(cs, c) == [cs EXCEPT ![c].handed = TRUE]

(* conn.Close() was called on c. *)
Closed(cs, c) == [cs EXCEPT ![c].st = "closed"]

(* conn.Read(buf): an error, or n bytes with a nil error. *)
ReadResults(R) ==
    {[err |-> TRUE, text |-> ""]} \cup {[err |-> FALSE, text |-> t] : t \in R}

CanWrite(c) == IF conns[c].st = "open" THEN BOOLEAN ELSE {FALSE}

IOWrite(cl, c) == [cl EXCEPT !.nw = @ + 1, !.touched = @ \cup {c}]
IORead(cl, c) == [cl EXCEPT !.nr = @ + 1, !.touched = @ \cup {c}]
IOClose(cl, c) ==
    [cl EXCEPT !.closed = @ \cup {c}, !.touched = @ \cup {c}]

(* The return of the active call cl. *)
RetOf(cl, ok, msg) ==
    [NoRet EXCEPT !.op = cl.op, !.ok = ok, !.msg = msg, !.name = cl.name,
                  !.reqkeys = cl.keys, !.conn = cl.conn, !.hs = cl.hs,
                  !.nw = cl.nw, !.nr = cl.nr, !.touched = cl.touched,
                  !.closed = cl.closed]

RetReply(cl, ok, msg, reply) ==
    [RetOf(cl, ok, msg) EXCEPT !.reply = reply, !.gotReply = TRUE]

Init ==
    /\ conns = [c \in ConnIds |-> NoConn]
    /\ sam = NoSAM
    /\ pc = "idle"
    /\ call = NoCall
    /\ ret = NoRet

(***************************************************************************)
(* NewSAM (sam3.go:27-47), called by the user or by newGenericSession      *)
(* (sam3.go:128-131), which replaces every error by ErrNewTunnel.          *)
(***************************************************************************)
NewSAMError(cl, msg) ==
    IF cl.op = "Session" THEN RetOf(cl, FALSE, ErrNewTunnel)
    ELSE RetOf(cl, FALSE, msg)

CallNewSAM ==
    /\ pc = "idle"
    /\ sam = NoSAM
    /\ FreeIds # {}
    /\ \E dialOk \in BOOLEAN :
        IF dialOk THEN
            /\ conns' = Dialed(FreeConn)
            /\ call' = [NoCall EXCEPT !.op = "NewSAM", !.conn = FreeConn]
            /\ pc' = "hello_write"
            /\ ret' = NoRet
        ELSE
            /\ ret' = RetOf([NoCall EXCEPT !.op = "NewSAM"], FALSE, ErrDial)
            /\ call' = NoCall
            /\ pc' = "idle"
            /\ UNCHANGED conns
    /\ UNCHANGED sam

(* HelloWrite that tries the write a second time when the first fails. *)
HelloWriteRetrying ==
    /\ pc = "hello_write"
    /\ \E ok \in CanWrite(call.conn) :
        LET cl == IOWrite(call, call.conn) IN
        /\ conns' = Written(conns, call.conn, HelloCmd)
        /\ IF ok THEN
               /\ call' = cl
               /\ pc' = "hello_read"
               /\ UNCHANGED ret
           ELSE IF call.nw = 0 THEN
               /\ call' = cl
               /\ pc' = "hello_write"
               /\ UNCHANGED ret
           ELSE
               /\ ret' = NewSAMError(cl, ErrWrite)
               /\ call' = NoCall
               /\ pc' = "idle"
    /\ UNCHANGED sam

HelloWrite ==
    /\ pc = "hello_write"
    /\ \E ok \in CanWrite(call.conn) :
        LET cl == IOWrite(call, call.conn) IN
        /\ conns' = Written(conns, call.conn, HelloCmd)
        /\ IF ok THEN
               /\ call' = cl
               /\ pc' = "hello_read"
               /\ UNCHANGED ret
           ELSE
               /\ ret' = NewSAMError(cl, ErrWrite)
               /\ call' = NoCall
               /\ pc' = "idle"
    /\ UNCHANGED sam

HelloRead ==
    /\ pc = "hello_read"
    /\ \E rd \in ReadResults(HelloReplies) :
        LET cl == IORead(call, call.conn)
            text == rd.text
            h == HelloClassify(text)
        IN
        IF rd.err THEN
            /\ ret' = NewSAMError(cl, ErrRead)
            /\ call' = NoCall
            /\ pc' = "idle"
            /\ UNCHANGED <<conns, sam>>
        ELSE IF ~h.ok THEN
            /\ conns' = ReadOn(conns, cl.conn, text)
            /\ ret' = [NewSAMError(cl, h.msg) EXCEPT
                          !.reply = text, !.gotReply = TRUE]
            /\ call' = NoCall
            /\ pc' = "idle"
            /\ UNCHANGED sam
        ELSE IF cl.op = "NewSAM" THEN
            /\ conns' = ReadOn(conns, cl.conn, text)
            /\ sam' = [address |-> Address, conn |-> cl.conn]
            /\ ret' = RetReply(cl, TRUE, "", text)
            /\ call' = NoCall
            /\ pc' = "idle"
        ELSE
            /\ conns' = ReadOn(conns, cl.conn, text)
            /\ call' = [cl EXCEPT
                           !.hs = TRUE,
                           !.scmsg = SessionCreateMsg(cl.style, cl.id, cl.keys,
                                                      cl.options, cl.extras),
                           !.m = 0, !.i = 0]
            /\ pc' = "sc_write"
            /\ UNCHANGED <<sam, ret>>

(***************************************************************************)
(* NewKeys (sam3.go:52-80).                                                *)
(***************************************************************************)
CallNewKeys ==
    /\ pc = "idle"
    /\ sam # NoSAM
    /\ \E ok \in CanWrite(sam.conn) :
        LET cl == IOWrite([NoCall EXCEPT !.op = "NewKeys", !.conn = sam.conn],
                          sam.conn)
        IN
        /\ conns' = Written(conns, sam.conn, DestGenerateCmd)
        /\ IF ok THEN
               /\ call' = cl
               /\ pc' = "keys_read"
               /\ ret' = NoRet
           ELSE
               /\ ret' = RetOf(cl, FALSE, ErrWrite)
               /\ call' = NoCall
               /\ pc' = "idle"
    /\ UNCHANGED sam

KeysReadFrom(R) ==
    /\ pc = "keys_read"
    /\ \E rd \in ReadResults(R) :
        LET cl == IORead(call, call.conn)
            reply == rd.text
            r == ParseKeys(reply)
        IN
        /\ IF rd.err THEN ret' = RetOf(cl, FALSE, ErrRead)
           ELSE ret' = [RetReply(cl, r.ok, r.msg, reply) EXCEPT !.keys = r.keys]
        /\ call' = NoCall
        /\ pc' = "idle"
    /\ UNCHANGED <<conns, sam>>

KeysRead == KeysReadFrom(KeysRepliesCore)

(***************************************************************************)
(* Lookup (sam3.go:84-119).                                                *)
(***************************************************************************)
CallLookup ==
    /\ pc = "idle"
    /\ sam # NoSAM
    /\ \E name \in Names, ok \in CanWrite(sam.conn) :
        LET cl == IOWrite([NoCall EXCEPT !.op = "Lookup", !.conn = sam.conn,
                                         !.name = name], sam.conn)
        IN
        /\ conns' = Written(conns, sam.conn,
                            "NAMING LOOKUP NAME=" \o name \o "\n")
        /\ IF ok THEN
               /\ call' = cl
               /\ pc' = "lookup_read"
               /\ ret' = NoRet
           ELSE
               /\ ret' = RetOf(cl, FALSE, ErrWrite)
               /\ call' = NoCall
               /\ pc' = "idle"
    /\ UNCHANGED sam

LookupReadFrom(R) ==
    /\ pc = "lookup_read"
    /\ \E rd \in ReadResults(R) :
        LET cl == IORead(call, call.conn)
            reply == rd.text
            r == ParseLookup(reply, call.name)
        IN
        /\ IF rd.err THEN ret' = RetOf(cl, FALSE, ErrRead)
           ELSE ret' = [RetReply(cl, r.ok, r.msg, reply) EXCEPT !.addr = r.addr]
        /\ call' = NoCall
        /\ pc' = "idle"
    /\ UNCHANGED <<conns, sam>>

LookupRead == LookupReadFrom(LookupRepliesCore)

(***************************************************************************)
(* newGenericSession (sam3.go:127-179).                                    *)
(***************************************************************************)
(* CallSession that runs the handshake and the command on sam.conn. *)
CallSessionReusing ==
    /\ pc = "idle"
    /\ sam # NoSAM
    /\ FreeIds # {}
    /\ \E style \in StylesCore, id \in Ids, keys \in KeySet,
          options \in OptionListsCore, extras \in ExtraListsCore :
        call' = [NoCall EXCEPT !.op = "Session", !.style = style,
                               !.id = id, !.keys = keys,
                               !.options = options, !.extras = extras,
                               !.conn = sam.conn]
    /\ pc' = "hello_write"
    /\ ret' = NoRet
    /\ UNCHANGED <<conns, sam>>

CallSession ==
    /\ pc = "idle"
    /\ sam # NoSAM
    /\ FreeIds # {}
    /\ \E style \in StylesCore, id \in Ids, keys \in KeySet,
          options \in OptionListsCore, extras \in ExtraListsCore,
          dialOk \in BOOLEAN :
        LET cl == [NoCall EXCEPT !.op = "Session", !.style = style,
                                 !.id = id, !.keys = keys,
                                 !.options = options, !.extras = extras]
        IN
        IF dialOk THEN
            /\ conns' = Dialed(FreeConn)
            /\ call' = [cl EXCEPT !.conn = FreeConn]
            /\ pc' = "hello_write"
            /\ ret' = NoRet
        ELSE
            /\ ret' = RetOf([NoCall EXCEPT !.op = "Session", !.keys = keys],
                            FALSE, ErrNewTunnel)
            /\ call' = NoCall
            /\ pc' = "idle"
            /\ UNCHANGED conns
    /\ UNCHANGED sam

(* ScWrite that passes the whole command to every conn.Write. *)
ScWriteFromStart ==
    /\ pc = "sc_write"
    /\ call.i # MaxWriteAttempts
    /\ LET rest == call.scmsg
           cl == IOWrite(call, call.conn)
       IN
       \/ /\ conns' = Closed(Written(conns, call.conn, rest), call.conn)
          /\ ret' = RetOf(IOClose(cl, call.conn), FALSE, ErrWrite)
          /\ call' = NoCall
          /\ pc' = "idle"
       \/ \E n \in WriteSizes(rest) :
          /\ conns' = Written(conns, call.conn, rest)
          /\ call' = [cl EXCEPT !.m = @ + n, !.i = @ + 1,
                                !.sent = @ \o SubSeq(rest, 1, n)]
          /\ pc' = IF call.m + n # Len(call.scmsg) THEN "sc_write"
                   ELSE "sc_read"
          /\ UNCHANGED ret
    /\ UNCHANGED sam

(* ScWrite that does not count an attempt that accepted no byte. *)
ScWriteNoCount ==
    /\ pc = "sc_write"
    /\ call.i # MaxWriteAttempts
    /\ LET rest == SubSeq(call.scmsg, call.m + 1, Len(call.scmsg))
           cl == IOWrite(call, call.conn)
       IN
       \/ /\ conns' = Closed(Written(conns, call.conn, rest), call.conn)
          /\ ret' = RetOf(IOClose(cl, call.conn), FALSE, ErrWrite)
          /\ call' = NoCall
          /\ pc' = "idle"
       \/ \E n \in WriteSizes(rest) :
          /\ conns' = Written(conns, call.conn, rest)
          /\ call' = [cl EXCEPT !.m = @ + n,
                                !.i = IF n = 0 THEN @ ELSE @ + 1,
                                !.sent = @ \o SubSeq(rest, 1, n)]
          /\ pc' = IF call.m + n # Len(call.scmsg) THEN "sc_write"
                   ELSE "sc_read"
          /\ UNCHANGED ret
    /\ UNCHANGED sam

(* One iteration of the write loop that calls conn.Write (sam3.go:139-150). *)
ScWrite ==
    /\ pc = "sc_write"
    /\ call.i # MaxWriteAttempts
    /\ LET rest == SubSeq(call.scmsg, call.m + 1, Len(call.scmsg))
           cl == IOWrite(call, call.conn)
       IN
       \/ /\ conns' = Closed(Written(conns, call.conn, rest), call.conn)
          /\ ret' = RetOf(IOClose(cl, call.conn), FALSE, ErrWrite)
          /\ call' = NoCall
          /\ pc' = "idle"
       \/ \E n \in WriteSizes(rest) :
          /\ conns' = Written(conns, call.conn, rest)
          /\ call' = [cl EXCEPT !.m = @ + n, !.i = @ + 1,
                                !.sent = @ \o SubSeq(rest, 1, n)]
          /\ pc' = IF call.m + n # Len(call.scmsg) THEN "sc_write"
                   ELSE "sc_read"
          /\ UNCHANGED ret
    /\ UNCHANGED sam

(* The iteration that finds i == 15 (sam3.go:140-143). *)
ScGiveUp ==
    /\ pc = "sc_write"
    /\ call.i = MaxWriteAttempts
    /\ conns' = Closed(conns, call.conn)
    /\ ret' = RetOf(IOClose(call, call.conn), FALSE, ErrWriting)
    /\ call' = NoCall
    /\ pc' = "idle"
    /\ UNCHANGED sam

(* The read of the reply and its classification (sam3.go:151-178). *)
ScRead ==
    /\ pc = "sc_read"
    /\ \E rd \in ReadResults(SessionReplies) :
        LET cl == IORead(call, call.conn)
            r == SessionClassify(rd.text, call.keys)
            done == IF r.close THEN IOClose(cl, call.conn) ELSE cl
        IN
        IF rd.err THEN
            /\ conns' = Closed(conns, call.conn)
            /\ ret' = RetOf(IOClose(cl, call.conn), FALSE, ErrRead)
            /\ pc' = "idle"
        ELSE
            /\ conns' = IF r.close THEN Closed(conns, call.conn)
                        ELSE IF r.outcome = "ok"
                             THEN HandedOver(conns, call.conn)
                        ELSE conns
            /\ ret' = [RetReply(done, r.outcome = "ok", r.msg, rd.text) EXCEPT
                          !.panic = (r.outcome = "panic"),
                          !.rconn = IF r.outcome = "ok" THEN call.conn ELSE 0]
            /\ pc' = IF r.outcome = "panic" THEN "crashed" ELSE "idle"
    /\ call' = NoCall
    /\ UNCHANGED sam

(***************************************************************************)
(* Close (sam3.go:183-188).                                                *)
(***************************************************************************)
(* Close that also closes every connection opened to the same endpoint. *)
CloseAll ==
    /\ pc = "idle"
    /\ sam # NoSAM
    /\ LET cl == IOClose([NoCall EXCEPT !.op = "Close", !.conn = sam.conn],
                         sam.conn)
       IN
       /\ ret' = IF conns[sam.conn].st = "open" THEN RetOf(cl, TRUE, "")
                 ELSE RetOf(cl, FALSE, ErrClosed)
       /\ conns' = [c \in ConnIds |->
                       IF conns[c].st = "open"
                       THEN [conns[c] EXCEPT !.st = "closed"] ELSE conns[c]]
    /\ call' = NoCall
    /\ UNCHANGED <<sam, pc>>

Close ==
    /\ pc = "idle"
    /\ sam # NoSAM
    /\ LET cl == IOClose([NoCall EXCEPT !.op = "Close", !.conn = sam.conn],
                         sam.conn)
       IN
       /\ ret' = IF conns[sam.conn].st = "open" THEN RetOf(cl, TRUE, "")
                 ELSE RetOf(cl, FALSE, ErrClosed)
       /\ conns' = Closed(conns, sam.conn)
    /\ call' = NoCall
    /\ UNCHANGED <<sam, pc>>

Next ==
    \/ CallNewSAM
    \/ HelloWrite
    \/ HelloRead
    \/ CallNewKeys
    \/ KeysRead
    \/ CallLookup
    \/ LookupRead
    \/ CallSession
    \/ ScWrite
    \/ ScGiveUp
    \/ ScRead
    \/ Close

Spec == Init /\ [][Next]_vars

(***************************************************************************)
(* The parsers and the command builder on their full input sets.  Each     *)
(* specification starts in the middle of a call, right before the step     *)
(* that computes, and takes that step only.                                *)
(***************************************************************************)
Handshaken ==
    /\ conns = [c \in ConnIds |->
                   IF c = 1 THEN [st |-> "open", hello |-> TRUE,
                                  first |-> HelloCmd, handed |-> FALSE]
                   ELSE NoConn]
    /\ sam = [address |-> Address, conn |-> 1]
    /\ ret = NoRet

InitKeys ==
    /\ Handshaken
    /\ pc = "keys_read"
    /\ call = IOWrite([NoCall EXCEPT !.op = "NewKeys", !.conn = 1], 1)

KeysReadAll == KeysReadFrom(KeysReplies)

SpecKeys == InitKeys /\ [][KeysReadAll]_vars

InitLookup ==
    /\ Handshaken
    /\ pc = "lookup_read"
    /\ \E name \in Names :
          call = IOWrite([NoCall EXCEPT !.op = "Lookup", !.conn = 1,
                                        !.name = name], 1)

LookupReadAll == LookupReadFrom(LookupReplies)

SpecLookup == InitLookup /\ [][LookupReadAll]_vars

InitCmd ==
    /\ conns = [c \in ConnIds |->
                   IF c = 1 THEN [st |-> "open", hello |-> TRUE,
                                  first |-> HelloCmd, handed |-> FALSE]
                   ELSE IF c = 2 THEN [st |-> "open", hello |-> FALSE,
                                       first |-> HelloCmd, handed |-> FALSE]
                   ELSE NoConn]
    /\ sam = [address |-> Address, conn |-> 1]
    /\ ret = NoRet
    /\ pc = "hello_read"
    /\ \E style \in Styles, id \in Ids, keys \in KeySet,
          options \in OptionLists, extras \in ExtraLists :
          call = IOWrite([NoCall EXCEPT !.op = "Session", !.style = style,
                                        !.id = id, !.keys = keys,
                                        !.options = options,
                                        !.extras = extras, !.conn = 2], 2)

SpecCmd == InitCmd /\ [][HelloRead]_vars

TypeOK ==
    /\ pc \in {"idle", "hello_write", "hello_read", "keys_read",
               "lookup_read", "sc_write", "sc_read", "crashed"}
    /\ \A c \in ConnIds : conns[c].st \in {"none", "open", "closed"}
    /\ call.m <= Len(call.scmsg)
    /\ call.i <= MaxWriteAttempts

(***************************************************************************)
(* Properties.                                                             *)
(***************************************************************************)
Returned(op) == pc = "idle" /\ ret.op = op
Answered(op) == Returned(op) /\ ret.gotReply
(* newGenericSession has read the reply to SESSION CREATE. *)
SessionReplied == ret.op = "Session" /\ ret.gotReply /\ ret.hs

(* s[n:] *)
Strip(s, n) == SubSeq(s, n + 1, Len(s))
TrimNewline(s) ==
    IF s # "" /\ SubSeq(s, Len(s), Len(s)) = "\n"
    THEN SubSeq(s, 1, Len(s) - 1) ELSE s
Indices(toks, p) == {i \in 1..Len(toks) : HasPrefix(toks[i], p)}
Min(S) == CHOOSE i \in S : \A j \in S : i <= j

(* C1: whenever newGenericSession returns an error after the handshake on
   the new connection succeeded, the new connection has been closed. *)
C1_ErrorClosesConn ==
    (Returned("Session") /\ ~ret.ok /\ ret.hs)
        => (conns[ret.conn].st = "closed" /\ ret.conn \in ret.closed)

(* C2: a reply is accepted as success only when it has the success prefix
   and the destination after the prefix, trailing newline trimmed, equals
   the serialization of the requested keys; every reply with the success
   prefix whose destination differs fails with the key-mismatch error and
   returns no connection. *)
C2_Destination ==
    LET dest == TrimNewline(Strip(ret.reply, Len(session_OK))) IN
    (SessionReplied /\ pc = "idle") =>
        /\ ret.ok => /\ HasPrefix(ret.reply, session_OK)
                     /\ dest = KeysString(ret.reqkeys)
        /\ (HasPrefix(ret.reply, session_OK)
              /\ dest # KeysString(ret.reqkeys))
            => (~ret.ok /\ ret.msg = ErrKeyMismatch /\ ret.rconn = 0)

(* C3: when newGenericSession succeeds, the connection it returns is the
   newly dialed, handshaken connection, not the control object's own; it is
   open and the call performed no close on it. *)
C3_SuccessHandsOverOpenConn ==
    (Returned("Session") /\ ret.ok) =>
        /\ ret.rconn = ret.conn
        /\ ret.rconn \in ConnIds
        /\ ret.rconn # sam.conn
        /\ conns[ret.rconn].st = "open"
        /\ conns[ret.rconn].hello
        /\ ret.closed = {}

C3_Witness ==
    /\ Returned("Session") /\ ret.ok
    /\ conns[sam.conn].st = "closed"

(* C4: the reply of SESSION CREATE is classified by shape: the three exact
   literals, the I2P-error prefix (remote error carrying the suffix), the
   success prefix (success or key mismatch), anything else a parse error
   carrying the raw reply; no reply has more than one shape. *)
ReplyShapes(text) ==
    {k \in {"ok", "dupid", "dupdest", "invalid", "i2p"} :
        \/ k = "ok" /\ HasPrefix(text, session_OK)
        \/ k = "dupid" /\ text = session_DUPLICATE_ID
        \/ k = "dupdest" /\ text = session_DUPLICATE_DEST
        \/ k = "invalid" /\ text = session_INVALID_KEY
        \/ k = "i2p" /\ HasPrefix(text, session_I2P_ERROR)}

C4_ReplyClassification ==
    SessionReplied =>
        LET sh == ReplyShapes(ret.reply) IN
        /\ Cardinality(sh) <= 1
        /\ "dupid" \in sh => (~ret.ok /\ ret.msg = ErrDupId)
        /\ "dupdest" \in sh => (~ret.ok /\ ret.msg = ErrDupDest)
        /\ "invalid" \in sh => (~ret.ok /\ ret.msg = ErrInvalidKey)
        /\ "i2p" \in sh =>
              /\ ~ret.ok
              /\ ret.msg = "I2P error "
                             \o Strip(ret.reply, Len(session_I2P_ERROR))
        /\ "ok" \in sh =>
              /\ pc = "idle"
              /\ ret.ok \/ ret.msg = ErrKeyMismatch
        /\ sh = {} =>
              /\ ~ret.ok
              /\ ret.msg = "Unable to parse SAMv3 reply: " \o ret.reply

(* C5: the handshake reply is classified totally: exactly the success
   string gives a control object, exactly the no-version string gives the
   unsupported-version error, every other reply gives an error carrying the
   raw reply; a control object exists only after success. *)
C5_HandshakeTotal ==
    (ret.op = "NewSAM" /\ ret.gotReply) =>
        /\ pc = "idle"
        /\ ret.reply = HelloOK =>
              (ret.ok /\ sam = [address |-> Address, conn |-> ret.conn])
        /\ ret.reply = HelloNoVersion => (~ret.ok /\ ret.msg = ErrNoSAMv3)
        /\ ret.reply \notin {HelloOK, HelloNoVersion} =>
              (~ret.ok /\ ret.msg = ret.reply)
        /\ ~ret.ok => sam = NoSAM

C5_Witness ==
    /\ Answered("NewSAM") /\ ~ret.ok
    /\ HasPrefix(ret.reply, HelloOK) /\ ret.reply # HelloOK
    /\ ret.msg = ret.reply

(* C6: a NewKeys reply made of DEST, REPLY, one PUB=<a> token and one
   PRIV=<k> token, in either order, gives the keys (a, k); a reply with any
   token that is not DEST, REPLY, PUB=-prefixed or PRIV=-prefixed fails with
   the parse error and gives no keys. *)
KeyTokenOK(t) ==
    t \in {"DEST", "REPLY"} \/ HasPrefix(t, "PUB=") \/ HasPrefix(t, "PRIV=")

C6_KeysParsed ==
    Answered("NewKeys") =>
        LET toks == ScanWords(ret.reply)
            pubs == Indices(toks, "PUB=")
            privs == Indices(toks, "PRIV=")
        IN
        /\ ((\A i \in 1..Len(toks) : KeyTokenOK(toks[i]))
              /\ Cardinality(pubs) = 1 /\ Cardinality(privs) = 1)
            => /\ ret.ok
               /\ ret.keys = [pub |-> Strip(toks[Min(pubs)], 4),
                              priv |-> Strip(toks[Min(privs)], 5)]
        /\ (\E i \in 1..Len(toks) : ~KeyTokenOK(toks[i]))
            => (~ret.ok /\ ret.msg = ErrParseKeys /\ ret.keys = NoKeys)

C6_Witness ==
    /\ Answered("NewKeys") /\ ret.ok
    /\ ret.reply = "DEST REPLY PRIV=xyz PUB=abc\n"
    /\ ret.keys = [pub |-> "abc", priv |-> "xyz"]

(* C7: NewKeys succeeds only if the reply had a PUB= token and a PRIV=
   token. *)
C7_BothKeysSet ==
    (Answered("NewKeys") /\ ret.ok) =>
        LET toks == ScanWords(ret.reply) IN
        Indices(toks, "PUB=") # {} /\ Indices(toks, "PRIV=") # {}

(* C8 (as stated): for every reply with the header and a VALUE=X token after
   it, Lookup returns the first such X with no error, whatever tokens
   precede it. *)
LookupTokens_(reply) == ScanWords(Strip(reply, NamingHeaderLen))

LookupTokenOK(t, name) ==
    \/ t \in {"RESULT=OK", "RESULT=INVALID_KEY", "RESULT=KEY_NOT_FOUND"}
    \/ t = "NAME=" \o name
    \/ HasPrefix(t, "VALUE=")
    \/ HasPrefix(t, "MESSAGE=")

C8_ValueAlwaysWins ==
    (Answered("Lookup") /\ HasPrefix(ret.reply, NamingHeader)) =>
        LET toks == LookupTokens_(ret.reply)
            vals == Indices(toks, "VALUE=")
        IN
        vals # {} => /\ ret.ok
                     /\ ret.addr = Strip(toks[Min(vals)], 6)

(* C8 (amended): for every reply with the header and a VALUE=X token after
   it, Lookup returns the first such X with no error, whatever error text
   was accumulated before it, provided every token that precedes it is a
   recognized one; the tokens after it are not examined. *)
C8_ValueWinsAfterRecognized ==
    (Answered("Lookup") /\ HasPrefix(ret.reply, NamingHeader)) =>
        LET toks == LookupTokens_(ret.reply)
            vals == Indices(toks, "VALUE=")
        IN
        (vals # {}
           /\ \A i \in 1..(Min(vals) - 1) : LookupTokenOK(toks[i], ret.name))
        => /\ ret.ok
           /\ ret.msg = ""
           /\ ret.addr = Strip(toks[Min(vals)], 6)

C8_Witness ==
    /\ Answered("Lookup") /\ ret.ok /\ ret.addr = "addr1"
    /\ LookupTokens_(ret.reply)
         = <<"RESULT=KEY_NOT_FOUND", "VALUE=addr1", "BOGUS">>

(* C9: when the reply has the header, every token is recognized and none
   is a VALUE= token, Lookup fails with the concatenation, in token order,
   of the texts the tokens contribute. *)
TokenText(t, name) ==
    IF t = "RESULT=INVALID_KEY" THEN "Invalid key."
    ELSE IF t = "RESULT=KEY_NOT_FOUND" THEN "Unable to resolve " \o name
    ELSE IF HasPrefix(t, "MESSAGE=") THEN " " \o Strip(t, 8)
    ELSE ""

RECURSIVE ErrorText(_, _)
ErrorText(toks, name) ==
    IF toks = <<>> THEN ""
    ELSE ErrorText(SubSeq(toks, 1, Len(toks) - 1), name)
             \o TokenText(toks[Len(toks)], name)

C9_AccumulatedError ==
    (Answered("Lookup") /\ HasPrefix(ret.reply, NamingHeader)) =>
        LET toks == LookupTokens_(ret.reply) IN
        ((\A i \in 1..Len(toks) : LookupTokenOK(toks[i], ret.name))
           /\ Indices(toks, "VALUE=") = {})
        => (~ret.ok /\ ret.msg = ErrorText(toks, ret.name))

(* C10: the session-create command is the SESSION CREATE head with style,
   id and keys, then every option once as a token OPTION=<v> in input
   order, then the extras verbatim in input order, separated by spaces and
   ended by the one newline of the command. *)
C10_CommandTokens ==
    (pc = "sc_write" /\ call.op = "Session" /\ call.i = 0) =>
        LET cmd == call.scmsg
            n == Len(cmd)
        IN
        /\ n > 0 /\ SubSeq(cmd, n, n) = "\n"
        /\ \A k \in 1..(n - 1) :
              IsSpace(SubSeq(cmd, k, k)) => SubSeq(cmd, k, k) = " "
        /\ ScanWords(cmd)
             = <<"SESSION", "CREATE", "STYLE=" \o call.style,
                 "ID=" \o call.id,
                 "DESTINATION=" \o call.keys.pub \o call.keys.priv>>
               \o [k \in 1..Len(call.options) |-> "OPTION=" \o call.options[k]]
               \o call.extras

C10_Witness ==
    /\ pc = "sc_write" /\ call.op = "Session" /\ call.i = 0
    /\ call.options = <<"b=2", "a=1">>
    /\ call.extras = <<"PORT=1", "HOST=h">>

(* C11: the write loop of newGenericSession makes at most 15 write
   attempts, each iteration counting one; it goes on to read the reply only
   with the whole command accepted, and with bytes left after 15 attempts
   the call fails with "writing to SAM failed" and the connection closed. *)
C11_WriteLoopBounded ==
    /\ [](pc \in {"sc_write", "sc_read"} =>
            /\ call.i <= MaxWriteAttempts
            /\ call.nw = call.i + 1)
    /\ [](pc = "sc_read" => (call.m = Len(call.scmsg) /\ call.i >= 1))
    /\ [](pc = "sc_write" => call.m < Len(call.scmsg))
    /\ [][(pc = "sc_write" /\ pc' = "sc_write") => call'.i = call.i + 1]_vars
    /\ [][(pc = "sc_write" /\ call.i = MaxWriteAttempts) =>
            /\ pc' = "idle"
            /\ ~ret'.ok /\ ret'.msg = ErrWriting
            /\ ret'.nw = MaxWriteAttempts + 1 /\ ret'.nr = 1
            /\ conns'[call.conn].st = "closed"]_vars
    /\ [](Returned("Session") => ret.nw <= MaxWriteAttempts + 1)

C11_Witness ==
    /\ Returned("Session") /\ ~ret.ok /\ ret.msg = ErrWriting
    /\ ret.nw = MaxWriteAttempts + 1
    /\ conns[ret.conn].st = "closed"

(* C12: when step 1 of newGenericSession fails after the new connection
   was dialed (handshake write or read fails, or the handshake reply is not
   the success reply), the freshly dialed connection is closed when the
   call returns. *)
C12_HandshakeFailureCloses ==
    (Returned("Session") /\ ~ret.hs /\ ret.conn # 0)
        => conns[ret.conn].st = "closed"

(* C13: when opening or handshaking the new connection fails in
   newGenericSession, the error returned is the underlying one: the dial,
   write or read error, the unsupported-version error, or the protocol
   error carrying the raw reply. *)
UnderlyingError ==
    IF ret.conn = 0 THEN ErrDial
    ELSE IF ret.nr = 0 THEN ErrWrite
    ELSE IF ~ret.gotReply THEN ErrRead
    ELSE IF ret.reply = HelloNoVersion THEN ErrNoSAMv3
    ELSE ret.reply

C13_UnderlyingErrorReturned ==
    (Returned("Session") /\ ~ret.hs) =>
        (~ret.ok /\ ret.msg = UnderlyingError)

(* C14: newGenericSession performs no read, write or close on the control
   object's own connection and changes neither field of the control object:
   every step of the call leaves that connection and the object as they
   were. *)
SessionStep ==
    \/ call.op = "Session"
    \/ pc = "idle" /\ (call'.op = "Session" \/ ret'.op = "Session")

C14_OriginalUntouched ==
    /\ [][SessionStep =>
            /\ sam' = sam
            /\ conns'[sam.conn] = conns[sam.conn]]_vars
    /\ [](call.op = "Session" => sam.conn \notin call.touched)
    /\ [](ret.op = "Session" =>
            (sam.conn \notin ret.touched /\ sam.conn \notin ret.closed))

C14_Witness ==
    /\ Returned("Session") /\ ret.ok
    /\ ret.touched = {ret.conn}
    /\ conns[sam.conn]
         = [st |-> "open", hello |-> TRUE, first |-> HelloCmd,
            handed |-> FALSE]

(* C15: Close closes the control object's own connection only: a step of
   Close leaves every other connection as it was, and a connection that
   newGenericSession has returned stays open whatever calls of Close and
   newGenericSession come before or after. *)
CloseStep == pc = "idle" /\ ret'.op = "Close"

C15_CloseOnlyOwnConn ==
    /\ [][CloseStep =>
            /\ conns'[sam.conn].st = "closed"
            /\ ret'.closed = {sam.conn}
            /\ \A c \in ConnIds \ {sam.conn} : conns'[c] = conns[c]]_vars
    /\ [](\A c \in ConnIds :
            conns[c].handed => (conns[c].st = "open" /\ c # sam.conn))

C15_Witness ==
    /\ Returned("Close") /\ ret.ok
    /\ conns[sam.conn].st = "closed"
    /\ \E c \in ConnIds : conns[c].handed /\ conns[c].st = "open"

(* C16: on every connection the first write is the HELLO line, and every
   other write (DEST GENERATE, NAMING LOOKUP, SESSION CREATE) is on a
   connection on which the exact handshake success reply has been read; no
   byte of SESSION CREATE is sent without a successful handshake on the new
   connection. *)
WritesBefore == IF pc = "idle" THEN 0 ELSE call.nw
WritesAfter == IF pc' = "idle" \/ pc' = "crashed" THEN ret'.nw ELSE call'.nw
WrittenConn == IF pc' = "idle" \/ pc' = "crashed" THEN ret'.conn ELSE call'.conn

C16_HelloBeforeCommands ==
    /\ [](\A c \in ConnIds : conns[c].first \in {"", HelloCmd})
    /\ [][(pc = "hello_write" /\ WritesAfter > WritesBefore) =>
            /\ conns[WrittenConn].first = ""
            /\ conns'[WrittenConn].first = HelloCmd]_vars
    /\ [][(pc # "hello_write" /\ WritesAfter > WritesBefore) =>
            /\ conns[WrittenConn].hello
            /\ conns[WrittenConn].first = HelloCmd]_vars
    /\ [](call.sent # "" => (call.hs /\ conns[call.conn].hello))
    /\ [](ret.op = "Session" /\ ~ret.hs => ret.nw <= 1)

C16_Witness ==
    /\ pc = "sc_read" /\ call.sent = call.scmsg
    /\ conns[call.conn].hello
    /\ conns[call.conn].first = HelloCmd

(* C17: at every point of the write loop the bytes the connection has
   accepted, in order, are the first m bytes of the command, and the reply
   is read only when they are the whole command. *)
C17_ResumeFromUnwritten ==
    /\ [](call.op = "Session" =>
            /\ Len(call.sent) = call.m
            /\ call.m <= Len(call.scmsg)
            /\ call.sent = SubSeq(call.scmsg, 1, call.m))
    /\ [](pc = "sc_read" => call.sent = call.scmsg)
    /\ [][(call.op = "Session" /\ call.hs /\ WritesAfter = WritesBefore
             /\ pc' \in {"idle", "crashed"} /\ ret'.nr > call.nr)
          => call.sent = call.scmsg]_vars

C17_Witness ==
    /\ pc = "sc_read" /\ call.i >= 3
    /\ call.sent = call.scmsg
    /\ Len(call.scmsg) > 3

(* C18: newGenericSession returns normally, with a connection or an
   error, for every reply the read can deliver; no reply ends the call
   abnormally. *)
C18_NoAbnormalTermination ==
    /\ pc # "crashed"
    /\ SessionReplied => ~ret.panic

(* C19: NewSAM, NewKeys and Lookup are one-shot: one write of the command
   and, if it succeeded, one read, then the return; after a write error, a
   read error or an unparseable reply nothing more is written or read. *)
OneShotOps == {"NewSAM", "NewKeys", "Lookup"}

C19_OneShot ==
    /\ [](pc = "hello_write" => (call.nw = 0 /\ call.nr = 0))
    /\ [](pc \in {"hello_read", "keys_read", "lookup_read"} =>
            (call.nw = 1 /\ call.nr = 0))
    /\ []((pc = "idle" /\ ret.op \in OneShotOps /\ ret.conn # 0) =>
            /\ ret.nw = 1 /\ ret.nr <= 1
            /\ ret.nr = 0 <=> (~ret.ok /\ ret.msg = ErrWrite)
            /\ ret.gotReply => ret.nr = 1
            /\ ret.touched = {ret.conn} /\ ret.closed = {})
    /\ [][(pc \in {"hello_read", "keys_read", "lookup_read"}
             /\ call.op \in OneShotOps)
          => (pc' = "idle" /\ ret'.op = call.op /\ ret'.nr = 1)]_vars

C19_Witness ==
    /\ Returned("Lookup") /\ ~ret.ok /\ ret.gotReply
    /\ ret.msg = ErrParse
    /\ ret.nw = 1 /\ ret.nr = 1

(* C20: Lookup rejects a reply with the header parse error exactly when the
   reply is shorter than the 13-byte header or does not begin with it; a
   reply that begins with the header, the header alone included, goes on to
   the tokens. *)
C20_HeaderCheck ==
    Answered("Lookup") =>
        ((~ret.ok /\ ret.msg = ErrParse)
            <=> ~HasPrefix(ret.reply, NamingHeader))

====
